---- MODULE Spec2Model ----
(***************************************************************************)
(* Model of src/src/app/cli.py: the push-to-talk capture-and-dispatch      *)
(* state machine of vibevoice.                                             *)
(*                                                                         *)
(* Two threads share the closure variables of main(): the pynput listener  *)
(* thread, which runs on_press / on_release one event at a time, and the   *)
(* sounddevice thread, which runs callback once per captured block.  The   *)
(* listener thread is modelled with a program counter kpc, the audio       *)
(* thread with apc; every step is one stretch of code that touches the     *)
(* shared variables (recording, audio_data) at most once.                  *)
(*                                                                         *)
(* Text is a sequence of one-character strings.  An audio block is a       *)
(* record [id, n]: its arrival number and its sample count; sample values  *)
(* are not modelled.                                                       *)
(***************************************************************************)
EXTENDS Integers, Sequences, FiniteSets, TLC

VARIABLES
    recording,          \* cli.py:80
    audio_data,         \* cli.py:81
    pressed_ctrl,       \* cli.py:84
    pressed_shift,      \* cli.py:85
    progress_current,   \* cli.py:88
    tasks,              \* progress._tasks: ids added and not yet removed
    task_index,         \* progress._task_index: the next id add_task returns
    RAW_MODE,           \* cli.py:24
    MACROS,             \* cli.py:19
    wav,                \* content of recording.wav (<<>>: never written)
    audio_data_np,      \* cli.py:132, local of on_release (<<>>: not assigned)
    kpc,                \* position of the listener thread
    key,                \* argument of the handler last entered
    kind,               \* "press" / "release": the handler last entered
    apc,                \* position of the audio thread
    indata,             \* block held by a callback between lines 176 and 177
    posted,             \* number of POST /transcribe requests issued
    inflight,           \* a request has been sent and not yet answered
    typed,              \* arguments of keyboard_controller.type, in order
    invoked,            \* macro actions called, in order
    crashed,            \* a handler raised: the listener stopped, join() re-raised
    frame_count,        \* history: blocks delivered so far
    session,            \* history: blocks delivered with recording set, since it was last switched on
    discarded,          \* history: ids of blocks delivered with recording clear
    outcomes,           \* history: how each finalization that got past line 129 ended
    at_entry,           \* history: recording, the key's flag and the buffer when on_press was entered
    last_text,          \* history: argument of the last process_typed call
    last_out            \* history: result of the last process_typed call

vars == << recording, audio_data, pressed_ctrl, pressed_shift, progress_current,
           tasks, task_index, RAW_MODE, MACROS, wav, audio_data_np, kpc, key, kind,
           apc, indata,
           posted, inflight, typed, invoked, crashed, frame_count, session,
           discarded, outcomes, at_entry, last_text, last_out >>

(***************************************************************************)
(* Program constants                                                       *)
(***************************************************************************)
MIN_SAMPLES_FOR_TRANSCRIBE == 8000

RECORD_KEY == "shift_r"

None == -1

(***************************************************************************)
(* Bounds of the model                                                     *)
(***************************************************************************)
\* MaxFrames caps the blocks delivered and MaxTasks the progress tasks
\* created (one per engagement, one per finalization); the steps that would
\* exceed a cap are not taken.  A block has ShortBlock or LongBlock samples;
\* process_typed is run on every text of up to MaxLen characters.
MaxFrames == 2

MaxTasks == 4

ShortBlock == 4000

LongBlock == 8000

MaxLen == 3

Keys == {"ctrl_r", "shift_r", "other"}

ChordKeys == {"ctrl_r", "shift_r"}

FrameSizes == {ShortBlock, LongBlock}

(***************************************************************************)
(* Text: str.lower and str.isalnum on the ASCII characters of the model    *)
(***************************************************************************)
LowerLetters == << "a","b","c","d","e","f","g","h","i","j","k","l","m",
                   "n","o","p","q","r","s","t","u","v","w","x","y","z" >>

UpperLetters == << "A","B","C","D","E","F","G","H","I","J","K","L","M",
                   "N","O","P","Q","R","S","T","U","V","W","X","Y","Z" >>

Digits == {"0","1","2","3","4","5","6","7","8","9"}

Range(f) == {f[i] : i \in DOMAIN f}

\* char.lower()
lower(c) ==
    IF \E i \in DOMAIN UpperLetters : UpperLetters[i] = c
    THEN LowerLetters[CHOOSE i \in DOMAIN UpperLetters : UpperLetters[i] = c]
    ELSE c

\* char.isalnum()
isalnum(c) == c \in Range(LowerLetters) \cup Range(UpperLetters) \cup Digits

\* a variant of sluggify that drops blanks only and keeps the case
RECURSIVE sluggify_blanks_only(_)
sluggify_blanks_only(text) ==
    IF text = << >> THEN << >>
    ELSE (IF Head(text) # " " THEN << Head(text) >> ELSE << >>)
         \o sluggify_blanks_only(Tail(text))

\* "".join(char for char in text.lower() if char.isalnum())
RECURSIVE sluggify(_)
sluggify(text) ==
    IF text = << >> THEN << >>
    ELSE (IF isalnum(lower(Head(text))) THEN << lower(Head(text)) >> ELSE << >>)
         \o sluggify(Tail(text))

(***************************************************************************)
(* The macro table.  macros.py is not part of the modelled source: a table *)
(* is modelled as the ordered items of a dict (distinct keys), each value  *)
(* either a string ("str") or a zero-argument callable ("fn").             *)
(***************************************************************************)
Str(k, v) == [key |-> k, kind |-> "str", value |-> v]

Fn(k, a) == [key |-> k, kind |-> "fn", value |-> a]

\* {"wake": "hello world", "stop": <action A>}
DemoTable ==
    << Str(<< "w","a","k","e" >>, << "h","e","l","l","o"," ","w","o","r","l","d" >>),
       Fn(<< "s","t","o","p" >>, "A") >>

Tables ==
    { DemoTable,
      << >>,
      << Str(<< "a","b" >>, << "x"," ","y" >>), Fn(<< "b" >>, "A") >>,
      << Fn(<< "b" >>, "A"), Str(<< "b","1" >>, << >>),
         Str(<< "B" >>, << "z" >>), Fn(<< >>, "B") >> }

Actions == {"A", "B"}

\* a variant of the comparison of line 54 that matches a key inside the text
RECURSIVE key_matches_substring(_, _)
key_matches_substring(sluggified, k) ==
    \/ (Len(sluggified) >= Len(k) /\ SubSeq(sluggified, 1, Len(k)) = k)
    \/ (sluggified # << >> /\ key_matches_substring(Tail(sluggified), k))

\* cli.py:54  sluggified == key
key_matches(sluggified, k) == sluggified = k

\* cli.py:53-69, the loop over MACROS.items() from item i on.  text is the
\* local variable text, calls the actions called so far; an action in
\* failing raises, which leaves the loop and process_typed.
RECURSIVE scan_macros(_, _, _, _, _, _)
scan_macros(items, i, sluggified, text, calls, failing) ==
    IF i > Len(items)
    THEN [text |-> text, calls |-> calls, raised |-> FALSE]
    ELSE IF key_matches(sluggified, items[i].key)
    THEN IF items[i].kind = "fn"
         THEN IF items[i].value \in failing
              THEN [text |-> text, calls |-> Append(calls, items[i].value),
                    raised |-> TRUE]
              ELSE scan_macros(items, i + 1, sluggified, << >>,
                               Append(calls, items[i].value), failing)
         ELSE [text |-> items[i].value, calls |-> calls, raised |-> FALSE]
    ELSE scan_macros(items, i + 1, sluggified, text, calls, failing)

\* a variant of process_typed without the test of line 71
process_typed_types_empty(text, macros, raw, failing) ==
    LET r == IF ~raw
             THEN scan_macros(macros, 1, sluggify(text), text, << >>, failing)
             ELSE [text |-> text, calls |-> << >>, raised |-> FALSE]
    IN  [typed  |-> IF ~r.raised THEN << r.text >> ELSE << >>,
         calls  |-> r.calls,
         raised |-> r.raised]

\* a variant of process_typed that looks the table up in raw mode too
process_typed_ignores_raw(text, macros, raw, failing) ==
    LET r == scan_macros(macros, 1, sluggify(text), text, << >>, failing)
    IN  [typed  |-> IF ~r.raised /\ r.text # << >> THEN << r.text >> ELSE << >>,
         calls  |-> r.calls,
         raised |-> r.raised]

\* cli.py:49-72.  typed: the arguments of keyboard_controller.type (none or
\* one), calls: the macro actions called, raised: an action raised.
process_typed(text, macros, raw, failing) ==
    LET r == IF ~raw
             THEN scan_macros(macros, 1, sluggify(text), text, << >>, failing)
             ELSE [text |-> text, calls |-> << >>, raised |-> FALSE]
    IN  [typed  |-> IF ~r.raised /\ r.text # << >> THEN << r.text >> ELSE << >>,
         calls  |-> r.calls,
         raised |-> r.raised]

(***************************************************************************)
(* Environment of the state machine                                        *)
(***************************************************************************)
\* what the backend can recognise: nothing, a macro action's key, a
\* replacement's key, and a text no macro matches
Transcripts ==
    { << >>,
      << "S","T","O","P" >>,
      << "W","a","k","e" >>,
      << "h","i","!" >> }

\* requests.post raising, raise_for_status raising, response.json() without "text"
Failures == {"transport_error", "service_error", "decode_error"}

\* shape[0] of np.concatenate(audio_data, axis=0)
RECURSIVE Samples(_)
Samples(frames) ==
    IF frames = << >> THEN 0 ELSE Head(frames).n + Samples(Tail(frames))

NoFrame == [id |-> 0, n |-> 0]

NoEntry == [recording |-> FALSE, held |-> FALSE, audio_data |-> << >>]

NoOut == [typed |-> << >>, calls |-> << >>, raised |-> FALSE]

(***************************************************************************)
(* The conditions of the handlers                                          *)
(***************************************************************************)
\* a variant of the chord condition that is satisfied by one key
ChordHeld_either(ctrl, shift) == ctrl \/ shift

\* cli.py:98  pressed_ctrl and pressed_shift
ChordHeld(ctrl, shift) == ctrl /\ shift

\* cli.py:120  key == RECORD_KEY and (pressed_shift == False or pressed_ctrl == False)
ReleaseFinalizes(k, ctrl, shift) ==
    k = RECORD_KEY /\ (shift = FALSE \/ ctrl = FALSE)

\* a variant of the length guard that lets every clip through
TooShort_never(n) == FALSE

\* cli.py:140  audio_data_int16.shape[0] < MIN_SAMPLES_FOR_TRANSCRIBE
TooShort(n) == n < MIN_SAMPLES_FOR_TRANSCRIBE

\* a variant in which np.concatenate accepts an empty list
concatenate_raises_never(frames) == FALSE

\* cli.py:131-135  np.concatenate(audio_data) raises ValueError on an empty
\* list; the except clause prints it and returns
concatenate_raises(frames) == frames = << >>

\* a variant of line 147 that leaves the file as it was
wavfile_write_skipped(old, clip) == old

\* cli.py:147  wavfile.write(recording_path, sample_rate, audio_data_int16):
\* the file holds the clip when the call returns
wavfile_write(old, clip) == clip

\* a variant of the try statement without the clause of line 166
escapes_handler_uncaught(raised) == raised

\* cli.py:164-167  an exception raised in lines 150-162 is caught by one of
\* the two except clauses: none leaves on_release
escapes_handler(raised) == FALSE

\* a variant of the callback's guard that buffers every block
ShouldBuffer_always(rec) == TRUE

\* cli.py:176  if recording
ShouldBuffer(rec) == rec

(***************************************************************************)
(* Initial state: main() up to the two with statements, cli.py:78-88       *)
(***************************************************************************)
Init ==
    /\ recording = FALSE
    /\ audio_data = << >>
    /\ pressed_ctrl = FALSE
    /\ pressed_shift = FALSE
    /\ progress_current = None
    /\ tasks = {}
    /\ task_index = 0
    /\ RAW_MODE = FALSE
    /\ MACROS = DemoTable
    /\ wav = << >>
    /\ audio_data_np = << >>
    /\ kpc = "idle"
    /\ key = "other"
    /\ kind = "release"
    /\ apc = "idle"
    /\ indata = NoFrame
    /\ posted = 0
    /\ inflight = FALSE
    /\ typed = << >>
    /\ invoked = << >>
    /\ crashed = FALSE
    /\ frame_count = 0
    /\ session = << >>
    /\ discarded = {}
    /\ outcomes = << >>
    /\ at_entry = NoEntry
    /\ last_text = << >>
    /\ last_out = NoOut

history == << frame_count, session, discarded, outcomes, at_entry, last_text, last_out >>

config == << RAW_MODE, MACROS >>

audio == << apc, indata >>

(***************************************************************************)
(* The listener thread: on_press                                           *)
(***************************************************************************)
\* cli.py:93-99.  The listener delivers one event at a time, so a handler
\* starts only when the previous one has returned.
on_press(k) ==
    /\ ~crashed
    /\ kpc = "idle"
    /\ key' = k
    /\ kind' = "press"
    /\ pressed_ctrl' = (pressed_ctrl \/ k = "ctrl_r")
    /\ pressed_shift' = (pressed_shift \/ k = "shift_r")
    /\ IF ChordHeld(pressed_ctrl', pressed_shift')
       THEN /\ task_index < MaxTasks
            /\ recording' = TRUE
            /\ session' = IF recording THEN session ELSE << >>
            /\ at_entry' = [recording |-> recording,
                            held |-> IF k = "ctrl_r" THEN pressed_ctrl
                                     ELSE IF k = "shift_r" THEN pressed_shift
                                     ELSE FALSE,
                            audio_data |-> audio_data]
            /\ kpc' = "press_100"
       ELSE /\ UNCHANGED << recording, session, at_entry, kpc >>
    /\ UNCHANGED << audio_data, progress_current, tasks, task_index, config, wav,
                    audio_data_np, audio, posted, inflight, typed, invoked, crashed,
                    frame_count, discarded, outcomes, last_text, last_out >>

\* cli.py:100-110.  remove_task of an id that is not in progress._tasks
\* raises KeyError: the handler is left at line 104 and the listener stops.
on_press_100 ==
    /\ ~crashed
    /\ kpc = "press_100"
    /\ audio_data' = << >>
    /\ IF progress_current # None /\ progress_current \notin tasks
       THEN /\ crashed' = TRUE
            /\ UNCHANGED << progress_current, tasks, task_index >>
       ELSE /\ tasks' = (tasks \ {progress_current}) \cup {task_index}
            /\ progress_current' = task_index
            /\ task_index' = task_index + 1
            /\ UNCHANGED crashed
    /\ kpc' = "idle"
    /\ at_entry' = NoEntry
    /\ UNCHANGED << recording, pressed_ctrl, pressed_shift, config, wav,
                    audio_data_np, key, kind, audio, posted, inflight, typed,
                    invoked, frame_count, session, discarded, outcomes, last_text,
                    last_out >>

(***************************************************************************)
(* The listener thread: on_release                                         *)
(***************************************************************************)
\* cli.py:115-129.  stop_task / remove_task of an id that is not in
\* progress._tasks (None included) raises KeyError after line 121 has run.
on_release(k) ==
    /\ ~crashed
    /\ kpc = "idle"
    /\ key' = k
    /\ kind' = "release"
    /\ pressed_ctrl' = (pressed_ctrl /\ k # "ctrl_r")
    /\ pressed_shift' = (pressed_shift /\ k # "shift_r")
    /\ IF ReleaseFinalizes(k, pressed_ctrl', pressed_shift')
       THEN /\ recording' = FALSE
            /\ IF progress_current \notin tasks
               THEN /\ crashed' = TRUE
                    /\ UNCHANGED << progress_current, tasks, task_index, kpc >>
               ELSE /\ task_index < MaxTasks
                    /\ tasks' = (tasks \ {progress_current}) \cup {task_index}
                    /\ progress_current' = task_index
                    /\ task_index' = task_index + 1
                    /\ kpc' = "release_132"
                    /\ UNCHANGED crashed
       ELSE UNCHANGED << recording, progress_current, tasks, task_index, kpc, crashed >>
    /\ UNCHANGED << audio_data, config, wav, audio_data_np, audio, posted,
                    inflight, typed, invoked, history >>

\* cli.py:131-147.  np.concatenate of an empty list raises ValueError, which
\* line 133 catches; a short clip is dropped; otherwise the clip is written.
on_release_132 ==
    /\ ~crashed
    /\ kpc = "release_132"
    /\ IF concatenate_raises(audio_data)
       THEN /\ kpc' = "idle"
            /\ outcomes' = Append(outcomes, "empty_clip")
            /\ UNCHANGED << tasks, wav, audio_data_np >>
       ELSE IF TooShort(Samples(audio_data))
       THEN /\ tasks' = tasks \ {progress_current}
            /\ kpc' = "idle"
            /\ outcomes' = Append(outcomes, "short_clip")
            /\ UNCHANGED << wav, audio_data_np >>
       ELSE /\ audio_data_np' = audio_data
            /\ wav' = wavfile_write(wav, audio_data)
            /\ kpc' = "release_150"
            /\ UNCHANGED << tasks, outcomes >>
    /\ UNCHANGED << recording, audio_data, pressed_ctrl, pressed_shift,
                    progress_current, task_index, config, key, kind, audio, posted,
                    inflight, typed, invoked, crashed, frame_count, session,
                    discarded, at_entry, last_text, last_out >>

\* a variant of line 150 that hands the request to another thread and returns
on_release_150_async ==
    /\ ~crashed
    /\ kpc = "release_150"
    /\ posted' = posted + 1
    /\ inflight' = TRUE
    /\ kpc' = "idle"
    /\ UNCHANGED << recording, audio_data, pressed_ctrl, pressed_shift,
                    progress_current, tasks, task_index, config, wav, audio_data_np,
                    key, kind, audio, typed, invoked, crashed, history >>

\* cli.py:150-153: the request leaves; the handler blocks until it is answered
on_release_150 ==
    /\ ~crashed
    /\ kpc = "release_150"
    /\ posted' = posted + 1
    /\ inflight' = TRUE
    /\ kpc' = "release_154"
    /\ UNCHANGED << recording, audio_data, pressed_ctrl, pressed_shift,
                    progress_current, tasks, task_index, config, wav, audio_data_np,
                    key, kind, audio, typed, invoked, crashed, history >>

\* a variant of the finally clause that leaves progress_current as it is
finally_171_keeps_current ==
    /\ tasks' = tasks \ {progress_current}
    /\ UNCHANGED progress_current
    /\ inflight' = FALSE
    /\ audio_data_np' = << >>
    /\ kpc' = "idle"

\* cli.py:168-171, the finally clause; the handler returns and its locals go
finally_171 ==
    /\ tasks' = tasks \ {progress_current}
    /\ progress_current' = None
    /\ inflight' = FALSE
    /\ audio_data_np' = << >>
    /\ kpc' = "idle"

\* cli.py:150-154 raising, or line 155 raising on a body without "text":
\* lines 164-167 report it
on_release_failed ==
    /\ ~crashed
    /\ kpc = "release_154"
    /\ \E f \in Failures : outcomes' = Append(outcomes, f)
    /\ finally_171
    /\ UNCHANGED << recording, audio_data, pressed_ctrl, pressed_shift, task_index,
                    config, wav, key, kind, audio, posted, typed, invoked, crashed,
                    frame_count, session, discarded, at_entry, last_text, last_out >>

\* cli.py:154-162: the request is answered with a text.  An action that
\* raises inside process_typed is caught at line 166.
on_release_154 ==
    /\ ~crashed
    /\ kpc = "release_154"
    /\ \E transcript \in Transcripts, failing \in SUBSET Actions :
          IF transcript # << >>
          THEN LET out == process_typed(transcript, MACROS, RAW_MODE, failing)
               IN  /\ typed' = typed \o out.typed
                   /\ invoked' = invoked \o out.calls
                   /\ last_text' = transcript
                   /\ last_out' = out
                   /\ outcomes' = Append(outcomes, IF out.raised THEN "action_raised"
                                                                  ELSE "text")
                   /\ crashed' = escapes_handler(out.raised)
          ELSE /\ outcomes' = Append(outcomes, "empty_text")
               /\ UNCHANGED << typed, invoked, last_text, last_out, crashed >>
    /\ finally_171
    /\ UNCHANGED << recording, audio_data, pressed_ctrl, pressed_shift, task_index,
                    config, wav, key, kind, audio, posted,
                    frame_count, session, discarded, at_entry >>

(***************************************************************************)
(* The audio thread: callback                                              *)
(***************************************************************************)
\* cli.py:174-176: a block arrives and the callback reads recording
callback ==
    /\ ~crashed
    /\ apc = "idle"
    /\ frame_count < MaxFrames
    /\ \E n \in FrameSizes :
          LET frame == [id |-> frame_count + 1, n |-> n]
          IN  /\ IF ShouldBuffer(recording)
                 THEN /\ indata' = frame
                      /\ apc' = "callback_177"
                 ELSE UNCHANGED << indata, apc >>
              /\ IF recording
                 THEN /\ session' = Append(session, frame)
                      /\ UNCHANGED discarded
                 ELSE /\ discarded' = discarded \cup {frame.id}
                      /\ UNCHANGED session
    /\ frame_count' = frame_count + 1
    /\ UNCHANGED << recording, audio_data, pressed_ctrl, pressed_shift,
                    progress_current, tasks, task_index, config, wav, audio_data_np,
                    kpc, key, kind, posted, inflight, typed, invoked, crashed,
                    outcomes, at_entry, last_text, last_out >>

\* cli.py:177  audio_data.append(indata.copy())
callback_177 ==
    /\ ~crashed
    /\ apc = "callback_177"
    /\ audio_data' = Append(audio_data, indata)
    /\ indata' = NoFrame
    /\ apc' = "idle"
    /\ UNCHANGED << recording, pressed_ctrl, pressed_shift, progress_current, tasks,
                    task_index, config, wav, audio_data_np, kpc, key, kind, posted,
                    inflight, typed, invoked, crashed, history >>

(***************************************************************************)
(* The program: cli.py:187-189                                             *)
(***************************************************************************)
Next ==
    \/ \E k \in Keys : on_press(k)
    \/ on_press_100
    \/ \E k \in Keys : on_release(k)
    \/ on_release_132
    \/ on_release_150
    \/ on_release_failed
    \/ on_release_154
    \/ callback
    \/ callback_177

Spec == Init /\ [][Next]_vars

(***************************************************************************)
(* process_typed on its own: every text up to MaxLen characters, every     *)
(* table, raw mode on and off                                              *)
(***************************************************************************)
Alphabet == {"a", "b", "B", "1", " ", "!"}

Texts ==
    UNION {[1..m -> Alphabet] : m \in 0..MaxLen}
    \cup Transcripts
    \cup {<< "p","l","e","a","s","e"," ","S","t","o","p"," ","n","o","w" >>}

InitDispatch ==
    /\ recording = FALSE
    /\ audio_data = << >>
    /\ pressed_ctrl = FALSE
    /\ pressed_shift = FALSE
    /\ progress_current = None
    /\ tasks = {}
    /\ task_index = 0
    /\ RAW_MODE \in BOOLEAN
    /\ MACROS \in Tables
    /\ wav = << >>
    /\ audio_data_np = << >>
    /\ kpc = "call"
    /\ key = "other"
    /\ kind = "release"
    /\ apc = "idle"
    /\ indata = NoFrame
    /\ posted = 0
    /\ inflight = FALSE
    /\ typed = << >>
    /\ invoked = << >>
    /\ crashed = FALSE
    /\ frame_count = 0
    /\ session = << >>
    /\ discarded = {}
    /\ outcomes = << >>
    /\ at_entry = NoEntry
    /\ last_text \in Texts
    /\ last_out = NoOut

\* one call process_typed(last_text)
dispatch ==
    /\ kpc = "call"
    /\ \E failing \in SUBSET Actions :
          LET out == process_typed(last_text, MACROS, RAW_MODE, failing)
          IN  /\ typed' = typed \o out.typed
              /\ invoked' = invoked \o out.calls
              /\ last_out' = out
    /\ kpc' = "returned"
    /\ UNCHANGED << recording, audio_data, pressed_ctrl, pressed_shift,
                    progress_current, tasks, task_index, config, wav, audio_data_np,
                    key, kind, audio, posted, inflight, crashed, frame_count,
                    session, discarded, outcomes, at_entry, last_text >>

NextDispatch == dispatch

SpecDispatch == InitDispatch /\ [][NextDispatch]_vars

(***************************************************************************)
(* Vocabulary of the properties                                            *)
(***************************************************************************)
Last(q) == q[Len(q)]

Ids(frames) == {frames[i].id : i \in DOMAIN frames}

IsPrefix(p, q) == Len(p) <= Len(q) /\ SubSeq(q, 1, Len(p)) = p

\* a step of the listener thread (every step of the audio thread changes
\* apc or frame_count)
ListenerStep == apc' = apc /\ frame_count' = frame_count

\* the step that enters on_press / on_release with a key of ks
Entered(kd, ks) ==
    kpc = "idle" /\ ListenerStep /\ kind' = kd /\ key' \in ks

\* the text that reaches the focused application
RECURSIVE Emitted(_)
Emitted(calls) ==
    IF calls = << >> THEN << >> ELSE Head(calls) \o Emitted(Tail(calls))

\* the lowercased text without its non-alphanumeric characters
NormKey(text) == SelectSeq([i \in DOMAIN text |-> lower(text[i])], isalnum)

Matching(macros, text) == {i \in DOMAIN macros : macros[i].key = NormKey(text)}

(***************************************************************************)
(* C1.  Once recording is on, the first release of either chord key        *)
(* switches recording off and starts finalization (line 131 on), and a     *)
(* release of a chord key while recording is off starts none: so one       *)
(* finalization per engagement.                                            *)
(***************************************************************************)
ChordReleasedOncePerEngagement ==
    [][ Entered("release", ChordKeys) =>
          /\ recording => (~recording' /\ kpc' = "release_132")
          /\ ~recording => kpc' = "idle" ]_vars

(***************************************************************************)
(* C2.  The clip a release writes is exactly the sequence of blocks that   *)
(* were delivered while recording was on during that session, in arrival   *)
(* order.                                                                  *)
(***************************************************************************)
ClipIsSessionFrames == kpc = "release_150" => wav = session

(***************************************************************************)
(* C3.  A block delivered while recording is off is never in the buffer,   *)
(* never held for appending and never in a written clip.                   *)
(***************************************************************************)
DiscardedNeverBuffered ==
    /\ Ids(audio_data) \cap discarded = {}
    /\ Ids(wav) \cap discarded = {}
    /\ indata.id \notin discarded

DiscardedThenClipWritten ==
    /\ posted > 0
    /\ wav # << >>
    /\ \E d \in discarded : d < wav[1].id

(***************************************************************************)
(* C4.  When the frames concatenated at finalization hold fewer than       *)
(* MIN_SAMPLES_FOR_TRANSCRIBE samples, the handler returns without writing *)
(* the clip file, without a request and without typing.                    *)
(***************************************************************************)
ShortClipDropped ==
    [][ ( /\ kpc = "release_132"
          /\ kpc' # kpc
          /\ Samples(audio_data) < MIN_SAMPLES_FOR_TRANSCRIBE )
        => ( /\ kpc' = "idle"
             /\ wav' = wav
             /\ posted' = posted
             /\ ~inflight'
             /\ typed' = typed
             /\ invoked' = invoked ) ]_vars

ShortClipWasDropped ==
    /\ outcomes # << >>
    /\ Last(outcomes) = "short_clip"
    /\ kpc = "idle"
    /\ audio_data # << >>
    /\ Samples(audio_data) < MIN_SAMPLES_FOR_TRANSCRIBE
    /\ wav = << >>
    /\ posted = 0

(***************************************************************************)
(* C5.  Raw mode off: process_typed compares the normalized key of the     *)
(* whole text with the table keys.  No key equal: the text is typed and no *)
(* action runs.  A key mapped to a string: the string is typed.  A key     *)
(* mapped to an action: the action runs once and nothing is typed.         *)
(***************************************************************************)
MacroDispatchByWholeKey ==
    (kpc = "returned" /\ ~RAW_MODE) =>
        /\ Len(typed) <= 1
        /\ Matching(MACROS, last_text) = {}
              => (Emitted(typed) = last_text /\ invoked = << >>)
        /\ \A i \in Matching(MACROS, last_text) :
              /\ MACROS[i].kind = "str"
                    => (Emitted(typed) = MACROS[i].value /\ invoked = << >>)
              /\ MACROS[i].kind = "fn"
                    => (typed = << >> /\ invoked = << MACROS[i].value >>)

ActionMatchedAfterNormalizing ==
    /\ kpc = "returned"
    /\ ~RAW_MODE
    /\ last_text # NormKey(last_text)
    /\ invoked # << >>
    /\ typed = << >>

(***************************************************************************)
(* C6.  Raw mode on: process_typed types its argument unchanged and runs   *)
(* no action, whatever the table holds.                                    *)
(***************************************************************************)
RawModeTypesVerbatim ==
    (kpc = "returned" /\ RAW_MODE) =>
        /\ Len(typed) <= 1
        /\ Emitted(typed) = last_text
        /\ invoked = << >>

RawModeBypassedAMatch ==
    /\ kpc = "returned"
    /\ RAW_MODE
    /\ \E i \in Matching(MACROS, last_text) : MACROS[i].kind = "fn"
    /\ typed = << last_text >>

(***************************************************************************)
(* C7.  A failed request types nothing, runs no action, is not retried and *)
(* ends the handler with recording off and no progress task; the chord     *)
(* engagement that follows starts a recording, and the release that ends   *)
(* it enters finalization.                                                 *)
(***************************************************************************)
FailedTranscriptionIsContained ==
    [][ /\ ( kpc = "release_154" /\ kpc' = "idle" /\ Last(outcomes') \in Failures )
           => ( /\ typed' = typed
                /\ invoked' = invoked
                /\ posted' = posted
                /\ ~inflight'
                /\ ~crashed'
                /\ ~recording'
                /\ progress_current' = None )
        /\ ( /\ kpc = "press_100" /\ kpc' = "idle"
             /\ outcomes # << >> /\ Last(outcomes) \in Failures )
           => ( /\ ~crashed'
                /\ recording'
                /\ audio_data' = << >>
                /\ progress_current' \in tasks' )
        /\ ( /\ Entered("release", {RECORD_KEY}) /\ recording
             /\ outcomes # << >> /\ Last(outcomes) \in Failures )
           => ( ~crashed' /\ kpc' = "release_132" ) ]_vars

TranscribedAfterFailure ==
    \E i \in DOMAIN outcomes :
        /\ outcomes[i] \in Failures
        /\ i < Len(outcomes)
        /\ outcomes[i + 1] = "text"
        /\ typed # << >>

(***************************************************************************)
(* C8.  A press of a chord key that was already held, arriving while       *)
(* recording is on, starts no new session: recording stays on and the      *)
(* frames that were in the buffer when the press arrived are still there,  *)
(* in order, when the handler returns.                                     *)
(***************************************************************************)
EngagementIsIdempotent ==
    [][ ( /\ kpc = "press_100" /\ kpc' = "idle"
          /\ key \in ChordKeys
          /\ at_entry.recording /\ at_entry.held )
        => ( recording' /\ IsPrefix(at_entry.audio_data, audio_data') ) ]_vars

(***************************************************************************)
(* C9.  A handler entered with another key than the two chord keys changes *)
(* neither the key flags nor recording, enters no finalization, and leaves *)
(* the frames that were in the buffer when it was entered in the buffer.   *)
(***************************************************************************)
OtherKeysIgnored ==
    [][ /\ ( Entered("press", {"other"}) \/ Entered("release", {"other"}) )
           => ( /\ pressed_ctrl' = pressed_ctrl
                /\ pressed_shift' = pressed_shift
                /\ recording' = recording
                /\ audio_data' = audio_data
                /\ kpc' \in {"idle", "press_100"} )
        /\ ( kpc = "press_100" /\ kpc' = "idle" /\ key = "other" )
           => ( /\ pressed_ctrl' = pressed_ctrl
                /\ pressed_shift' = pressed_shift
                /\ recording' = at_entry.recording
                /\ IsPrefix(at_entry.audio_data, audio_data') ) ]_vars

(***************************************************************************)
(* C10.  A release of a chord key while recording is off changes nothing:  *)
(* no key flag is set, recording and the buffer stay, the handler returns  *)
(* without raising, and no task, clip file or request results.             *)
(***************************************************************************)
StrayReleaseIsNoOp ==
    [][ ( Entered("release", ChordKeys) /\ ~recording )
        => ( /\ pressed_ctrl' => pressed_ctrl
             /\ pressed_shift' => pressed_shift
             /\ recording' = recording
             /\ audio_data' = audio_data
             /\ kpc' = "idle"
             /\ ~crashed'
             /\ tasks' = tasks
             /\ wav' = wav
             /\ posted' = posted ) ]_vars

(***************************************************************************)
(* C11.  While a transcription request is in flight the listener can still *)
(* process a key event, and the audio thread can still take a block.       *)
(***************************************************************************)
EventsDeliveredWhileInFlight ==
    inflight =>
        /\ \E k \in Keys : (ENABLED on_press(k)) \/ (ENABLED on_release(k))
        /\ (apc = "idle" /\ frame_count < MaxFrames) => ENABLED callback

(***************************************************************************)
(* C12.  At most one request is unanswered at any time, a request is sent  *)
(* only when none is, and recording.wav is not written from the step that  *)
(* wrote it for a request until that request is answered.                  *)
(***************************************************************************)
Answered ==
    Cardinality({i \in DOMAIN outcomes :
                    outcomes[i] \notin {"empty_clip", "short_clip"}})

SingleRequestOwnsClipFile ==
    [][ /\ posted - Answered \in {0, 1}
        /\ inflight <=> (posted - Answered = 1)
        /\ posted' # posted => ~inflight
        /\ (inflight \/ kpc = "release_150") => wav' = wav ]_vars

SecondRequestInFlight == inflight /\ posted = 2 /\ wav # << >>

(***************************************************************************)
(* C13.  When a macro action raises, nothing is typed, the exception does  *)
(* not leave on_release, the handler ends with no progress task, and the   *)
(* chord engagement that follows starts a recording.                       *)
(***************************************************************************)
MacroFailureIsContained ==
    [][ /\ ( kpc = "release_154" /\ kpc' # kpc /\ Last(outcomes') = "action_raised" )
           => ( /\ typed' = typed
                /\ Len(invoked') = Len(invoked) + 1
                /\ ~crashed'
                /\ kpc' = "idle"
                /\ ~recording'
                /\ progress_current' = None )
        /\ ( /\ kpc = "press_100" /\ kpc' = "idle"
             /\ outcomes # << >> /\ Last(outcomes) = "action_raised" )
           => ( ~crashed' /\ recording' /\ progress_current' \in tasks' ) ]_vars

RecordingAfterMacroFailure ==
    /\ outcomes # << >>
    /\ Last(outcomes) = "action_raised"
    /\ invoked # << >>
    /\ typed = << >>
    /\ recording
    /\ kpc = "idle"
    /\ ~crashed

(***************************************************************************)
(* C14.  recording goes from off to on only in the step that enters        *)
(* on_press and leaves both key flags set, and every such step taken with  *)
(* recording off switches it on.                                           *)
(***************************************************************************)
RecordingOnlyByChord ==
    [][ /\ ( ~recording /\ recording' )
           => ( Entered("press", Keys) /\ pressed_ctrl' /\ pressed_shift' )
        /\ ( Entered("press", Keys) /\ ~recording /\ pressed_ctrl' /\ pressed_shift' )
           => recording' ]_vars

ChordEngaged ==
    /\ recording
    /\ pressed_ctrl
    /\ pressed_shift
    /\ kind = "press"
    /\ kpc = "idle"
    /\ progress_current \in tasks

(***************************************************************************)
(* C15.  A finalization that finds no frame in the buffer stops at the     *)
(* ValueError of np.concatenate: the handler returns without raising,      *)
(* without writing the clip file, without a request and without typing.    *)
(***************************************************************************)
EmptySessionStops ==
    [][ ( kpc = "release_132" /\ kpc' # kpc /\ audio_data = << >> )
        => ( /\ kpc' = "idle"
             /\ Last(outcomes') = "empty_clip"
             /\ ~crashed'
             /\ wav' = wav
             /\ posted' = posted
             /\ ~inflight'
             /\ typed' = typed
             /\ invoked' = invoked ) ]_vars

EmptySessionEnded ==
    /\ outcomes = << "empty_clip" >>
    /\ kpc = "idle"
    /\ ~crashed
    /\ ~recording
    /\ wav = << >>
    /\ posted = 0

(***************************************************************************)
(* C16.  In the step that switches recording from off to on the frame      *)
(* buffer is empty, and a written clip holds only blocks that were         *)
(* delivered during the session it ends.                                   *)
(***************************************************************************)
FreshSessionOnReengage ==
    [][ /\ ( ~recording /\ recording' ) => audio_data' = << >>
        /\ kpc' = "release_150" => Ids(wav') \subseteq Ids(session') ]_vars

(***************************************************************************)
(* C18.  While a request is in flight, recording.wav holds the clip that   *)
(* the handler which sent the request concatenated (audio_data_np), whole. *)
(***************************************************************************)
RequestReadsItsOwnClip ==
    (inflight \/ kpc = "release_150") =>
        (audio_data_np # << >> /\ wav = audio_data_np)

SecondClipInFlight ==
    /\ inflight
    /\ posted = 2
    /\ wav = audio_data_np
    /\ wav[1].id = 2

(***************************************************************************)
(* C19.  No handler raises: on_press and on_release call stop_task and     *)
(* remove_task only with the id of a task that is in the progress display, *)
(* so the listener is never stopped by its own callbacks.                  *)
(***************************************************************************)
HandlersNeverRaise == ~crashed

(***************************************************************************)
(* C20.  keyboard_controller.type is called only while a request answered  *)
(* with a non-empty text is handled, never with the empty string; an       *)
(* answer with an empty text types nothing, runs no action and does not    *)
(* reach process_typed.                                                    *)
(***************************************************************************)
OnlyNonEmptyTranscriptsTyped ==
    [][ /\ typed' # typed
           => ( /\ kpc = "release_154"
                /\ Last(outcomes') = "text"
                /\ last_text' # << >>
                /\ Len(typed') = Len(typed) + 1 )
        /\ ( kpc = "release_154" /\ kpc' # kpc /\ Last(outcomes') = "empty_text" )
           => ( typed' = typed /\ invoked' = invoked /\ last_text' = last_text )
        /\ \A i \in DOMAIN typed' : typed'[i] # << >> ]_vars

TypedAfterEmptyTranscript ==
    /\ typed # << >>
    /\ \E i \in DOMAIN outcomes : outcomes[i] = "empty_text"

====
